---- MODULE Spec2Model ----
(***************************************************************************)
(* Voxel world store of quirixa/architect: the sparse block map of         *)
(* useVoxelWorld (src/hooks/useVoxelWorld.ts), the block catalog and the   *)
(* JSON import check of data/blockRegistry, the handlers of VoxelEditor,   *)
(* and the ray queries, effects and pointer handlers of VoxelCanvas.       *)
(*                                                                         *)
(* blockMap is the JavaScript Map of the hook: a sequence of entries in    *)
(* insertion order, keyed by the string `${x},${y},${z}`.  Strings are     *)
(* sequences of one-character strings, so that positionToKey and           *)
(* keyToPosition are a real formatting and a real parsing.                 *)
(***************************************************************************)
EXTENDS Integers, Sequences, FiniteSets, TLC

VARIABLES
  blockMap,   \* blockMapRef.current : sequence of [key, id], insertion order
  worldData,  \* useState<WorldData> : [version, size, metadata]
  version,    \* useState(0), the revision counter
  op,         \* name of the operation that ran last
  args,       \* its arguments
  ret,        \* what it returned to the caller
  repeated,   \* how a successful place relates to the operation before it
  fresh,      \* a second, fresh store that received an export (round trip)
  hotbarSlots,          \* VoxelEditor useState(DEFAULT_HOTBAR)
  selectedHotbarIndex,  \* VoxelEditor useState(0)
  cameraMode,           \* VoxelEditor useState('orbit')
  pointerLockElement,   \* document.pointerLockElement === containerRef.current
  isPointerLocked,      \* isPointerLockedRef.current
  blockMeshes,          \* blockMeshesRef.current, each mesh with the fact
                        \* that it is a child of the scene of sceneRef
  camera,               \* rotation of cameraRef.current : [yaw, pitch]
  look,                 \* [yaw |-> yawRef.current, pitch |-> pitchRef.current]
  dispatch,             \* a mousedown that the container listener handled
                        \* and the document listener has still to receive
  ui,                   \* the handler of the canvas that ran last, with the
                        \* ray query it made
  moveState,            \* moveStateRef.current, the six thrust flags
  velocity,             \* velocityRef.current : <<x, y, z>>, in thousandths
  released              \* what the last handler found, when it was
                        \* handleLockChange on a lost pointer lock

storeVars == <<blockMap, worldData, version, op, args, ret, repeated, fresh>>

canvasVars ==
  <<hotbarSlots, selectedHotbarIndex, cameraMode, pointerLockElement,
    isPointerLocked, blockMeshes, camera, look, dispatch, ui,
    moveState, velocity, released>>

vars ==
  <<blockMap, worldData, version, op, args, ret, repeated, fresh,
    hotbarSlots, selectedHotbarIndex, cameraMode, pointerLockElement,
    isPointerLocked, blockMeshes, camera, look, dispatch, ui,
    moveState, velocity, released>>

----------------------------------------------------------------------------
(* Bounds of the exploration *)

MaxVersion == 3

----------------------------------------------------------------------------
(* Block catalog *)

\* ids of BLOCK_REGISTRY, in registration order of the categories
BLOCK_BY_ID ==
  (1..12) \cup (20..25) \cup (30..35) \cup (40..47) \cup (50..55)
    \cup (60..64) \cup (70..81)

----------------------------------------------------------------------------
(* Number <-> string, as template literals and Number() do for integers *)

Digit(d) ==
  CASE d = 0 -> "0" [] d = 1 -> "1" [] d = 2 -> "2" [] d = 3 -> "3"
    [] d = 4 -> "4" [] d = 5 -> "5" [] d = 6 -> "6" [] d = 7 -> "7"
    [] d = 8 -> "8" [] d = 9 -> "9"

DigitVal(c) ==
  CASE c = "0" -> 0 [] c = "1" -> 1 [] c = "2" -> 2 [] c = "3" -> 3
    [] c = "4" -> 4 [] c = "5" -> 5 [] c = "6" -> 6 [] c = "7" -> 7
    [] c = "8" -> 8 [] c = "9" -> 9

RECURSIVE Digits(_)
Digits(n) ==
  IF n < 10 THEN <<Digit(n)>> ELSE Digits(n \div 10) \o <<Digit(n % 10)>>

\* `${n}` for an integer n
NumberToString(n) ==
  IF n < 0 THEN <<"-">> \o Digits(0 - n) ELSE Digits(n)

RECURSIVE DigitsValue(_, _)
DigitsValue(s, acc) ==
  IF s = <<>> THEN acc
  ELSE DigitsValue(Tail(s), 10 * acc + DigitVal(Head(s)))

\* variant: the sign is read past and lost
StringToNumber_Abs(s) ==
  IF s = <<>> THEN 0
  ELSE IF Head(s) = "-" THEN DigitsValue(Tail(s), 0)
  ELSE DigitsValue(s, 0)

\* Number(s) for the decimal strings NumberToString produces; Number("") is 0
StringToNumber(s) ==
  IF s = <<>> THEN 0
  ELSE IF Head(s) = "-" THEN 0 - DigitsValue(Tail(s), 0)
  ELSE DigitsValue(s, 0)

\* s.split(',')
RECURSIVE Split(_, _, _)
Split(s, cur, acc) ==
  IF s = <<>> THEN Append(acc, cur)
  ELSE IF Head(s) = "," THEN Split(Tail(s), <<>>, Append(acc, cur))
  ELSE Split(Tail(s), Append(cur, Head(s)), acc)

positionToKey(x, y, z) ==
  NumberToString(x) \o <<",">> \o NumberToString(y) \o <<",">>
    \o NumberToString(z)

keyToPosition(key) ==
  LET parts == Split(key, <<>>, <<>>)
  IN  <<StringToNumber(parts[1]), StringToNumber(parts[2]),
        StringToNumber(parts[3])>>

----------------------------------------------------------------------------
(* JavaScript Map, insertion ordered *)

MapHas(m, key) == \E i \in 1..Len(m) : m[i].key = key

MapIndex(m, key) == CHOOSE i \in 1..Len(m) : m[i].key = key

\* Map.prototype.get: <<>> stands for undefined, <<id>> for a value
MapGet(m, key) ==
  IF MapHas(m, key) THEN <<m[MapIndex(m, key)].id>> ELSE <<>>

\* variant: an entry is appended even when the key exists
MapSet_AlwaysAppend(m, key, id) == Append(m, [key |-> key, id |-> id])

\* variant: an existing key keeps its old value
MapSet_KeepFirst(m, key, id) ==
  IF MapHas(m, key) THEN m ELSE Append(m, [key |-> key, id |-> id])

\* Map.prototype.set: an existing key keeps its place, a new key is appended
MapSet(m, key, id) ==
  IF MapHas(m, key)
  THEN [i \in 1..Len(m) |-> IF m[i].key = key THEN [key |-> key, id |-> id]
                                               ELSE m[i]]
  ELSE Append(m, [key |-> key, id |-> id])

\* variant: the oldest entry is dropped, whatever its key
MapDelete_First(m, key) == IF m = <<>> THEN m ELSE Tail(m)

\* Map.prototype.delete
MapDelete(m, key) == SelectSeq(m, LAMBDA e : e.key # key)

----------------------------------------------------------------------------
(* World data and the structures a world file can parse to *)

DefaultSizeX == 64
DefaultSizeY == 32
DefaultSizeZ == 64

Size(x, y, z) == [x |-> x, y |-> y, z |-> z]

\* createEmptyWorld: version '1.0.0', the given size, no metadata
createEmptyWorld(sizeX, sizeY, sizeZ) ==
  [version |-> "1.0.0", size |-> Size(sizeX, sizeY, sizeZ), metadata |-> <<>>]

\* an element of a blocks array: a block object, or null
Blk(x, y, z, id) == [isNull |-> FALSE, x |-> x, y |-> y, z |-> z, id |-> id]
NullItem == [isNull |-> TRUE, x |-> 0, y |-> 0, z |-> 0, id |-> 0]

\* The value JSON.parse yields.  parsed = FALSE: the text is not JSON, or is
\* the JSON null.  A field is absent, or present with a kind and a value.
Data(parsed, vk, v, sk, sz, bk, bs, md) ==
  [parsed |-> parsed, versionKind |-> vk, version |-> v,
   sizeKind |-> sk, size |-> sz, blocksKind |-> bk, blocks |-> bs,
   metadata |-> md]

NoData ==
  Data(FALSE, "absent", "", "absent", Size(0, 0, 0), "absent", <<>>, <<>>)

ImportSamples ==
  { \* well formed: an unknown id and a block outside the declared size
    Data(TRUE, "string", "1.0.0", "object", Size(8, 8, 8), "array",
         <<Blk(0, 0, 0, 1), Blk(63, 31, 63, 99)>>, <<>>),
    \* well formed: metadata, a negative coordinate, a repeated coordinate
    Data(TRUE, "string", "2", "object", Size(4, 4, 4), "array",
         <<Blk(-1, 0, 0, 2), Blk(1, 2, 3, 30), Blk(-1, 0, 0, 1)>>, <<"meta">>),
    \* well formed: no blocks
    Data(TRUE, "string", "1.0.0", "object", Size(64, 32, 64), "array",
         <<>>, <<>>),
    \* version present but the empty string
    Data(TRUE, "string", "", "object", Size(8, 8, 8), "array",
         <<Blk(0, 0, 0, 1)>>, <<>>),
    \* version absent
    Data(TRUE, "absent", "", "object", Size(8, 8, 8), "array",
         <<Blk(0, 0, 0, 1)>>, <<>>),
    \* size absent
    Data(TRUE, "string", "1.0.0", "absent", Size(0, 0, 0), "array",
         <<Blk(0, 0, 0, 1)>>, <<>>),
    \* blocks absent
    Data(TRUE, "string", "1.0.0", "object", Size(8, 8, 8), "absent",
         <<>>, <<>>),
    \* blocks present but an object, not an array
    Data(TRUE, "string", "1.0.0", "object", Size(8, 8, 8), "object",
         <<>>, <<>>),
    \* blocks array holding a null after a block
    Data(TRUE, "string", "1.0.0", "object", Size(8, 8, 8), "array",
         <<Blk(1, 2, 3, 2), NullItem>>, <<>>),
    \* not JSON
    NoData }

\* JavaScript truthiness of data.version, data.size, data.blocks
VersionTruthy(data) == data.versionKind = "string" /\ data.version # ""
SizeTruthy(data) == data.sizeKind = "object"
BlocksTruthy(data) == data.blocksKind \in {"object", "array"}

\* importWorldFromJSON: TRUE when it throws (JSON.parse fails, a property of
\* null is read, or the format check fails), FALSE when it returns data
importWorldFromJSON(data) ==
  \/ ~data.parsed
  \/ ~VersionTruthy(data) \/ ~SizeTruthy(data) \/ ~BlocksTruthy(data)

----------------------------------------------------------------------------
(* Inputs *)

\* in the default world the first three are inside, the others are outside
\* on exactly one axis
Coords ==
  { <<0, 0, 0>>, <<1, 2, 3>>, <<63, 31, 63>>,
    <<-1, 0, 0>>, <<0, -1, 0>>, <<0, 0, -1>>,
    <<64, 0, 0>>, <<0, 32, 0>>, <<0, 0, 64>> }

\* coordinates the reads are tried at: occupied ones, free ones, one outside
QueryCoords == { <<0, 0, 0>>, <<1, 2, 3>>, <<-1, 0, 0>>, <<0, 32, 0>> }

\* two catalog ids and an id the catalog lacks
Ids == {1, 2, 13}

NoArgs == [x |-> 0, y |-> 0, z |-> 0, id |-> 0, data |-> NoData]
Args(x, y, z, id) == [x |-> x, y |-> y, z |-> z, id |-> id, data |-> NoData]

NoRet == [ok |-> FALSE, threw |-> FALSE, val |-> <<>>, data |-> <<>>]
RetOk(b) == [ok |-> b, threw |-> FALSE, val |-> <<>>, data |-> <<>>]
RetVal(v) == [ok |-> TRUE, threw |-> FALSE, val |-> v, data |-> <<>>]

NoFresh ==
  [used |-> FALSE, blockMap |-> <<>>,
   worldData |-> createEmptyWorld(DefaultSizeX, DefaultSizeY, DefaultSizeZ),
   version |-> 0]

----------------------------------------------------------------------------
(* Reads of the store *)

getBlock(x, y, z) == MapGet(blockMap, positionToKey(x, y, z))

hasBlock(x, y, z) == MapHas(blockMap, positionToKey(x, y, z))

getBlockCount == Len(blockMap)

\* variant: the parsed position is pushed as {x, z, y}
ExportBlocks_SwapYZ(m) ==
  [i \in 1..Len(m) |->
     LET pos == keyToPosition(m[i].key)
     IN  Blk(pos[1], pos[3], pos[2], m[i].id)]

\* blocks.push({x, y, z, id}) for every entry, in the Map's order
ExportBlocks(m) ==
  [i \in 1..Len(m) |->
     LET pos == keyToPosition(m[i].key)
     IN  Blk(pos[1], pos[2], pos[3], m[i].id)]

\* { ...worldData, blocks }
ExportOf(wd, m) ==
  Data(TRUE, "string", wd.version, "object", wd.size, "array",
       ExportBlocks(m), wd.metadata)

exportWorld == ExportOf(worldData, blockMap)

----------------------------------------------------------------------------
(* importWorld on a store st = [blockMap, worldData, version] *)

\* data.blocks.forEach(({x, y, z, id}) => map.set(positionToKey(x, y, z), id));
\* destructuring a null element throws and leaves what was set before it
RECURSIVE ForEachSet(_, _)
ForEachSet(m, items) ==
  IF items = <<>> THEN [map |-> m, threw |-> FALSE]
  ELSE IF Head(items).isNull THEN [map |-> m, threw |-> TRUE]
  ELSE LET b == Head(items)
       IN  ForEachSet(MapSet(m, positionToKey(b.x, b.y, b.z), b.id),
                      Tail(items))

\* variant: the metadata of the imported structure is not kept
importWorld_DropMetadata(st, data) ==
  IF data.blocksKind # "array"
  THEN [blockMap |-> <<>>, worldData |-> st.worldData,
        version |-> st.version, threw |-> TRUE]
  ELSE LET r == ForEachSet(<<>>, data.blocks)
       IN  IF r.threw
           THEN [blockMap |-> r.map, worldData |-> st.worldData,
                 version |-> st.version, threw |-> TRUE]
           ELSE [blockMap |-> r.map,
                 worldData |-> [version |-> data.version, size |-> data.size,
                                metadata |-> <<>>],
                 version |-> st.version + 1, threw |-> FALSE]

\* variant: the map is not cleared before the blocks are set
importWorld_NoClear(st, data) ==
  IF data.blocksKind # "array"
  THEN [blockMap |-> st.blockMap, worldData |-> st.worldData,
        version |-> st.version, threw |-> TRUE]
  ELSE LET r == ForEachSet(st.blockMap, data.blocks)
       IN  IF r.threw
           THEN [blockMap |-> r.map, worldData |-> st.worldData,
                 version |-> st.version, threw |-> TRUE]
           ELSE [blockMap |-> r.map,
                 worldData |-> [version |-> data.version, size |-> data.size,
                                metadata |-> data.metadata],
                 version |-> st.version + 1, threw |-> FALSE]

importWorld(st, data) ==
  IF data.blocksKind # "array"
  THEN \* clear() has run, then data.blocks.forEach is not a function
       [blockMap |-> <<>>, worldData |-> st.worldData,
        version |-> st.version, threw |-> TRUE]
  ELSE LET r == ForEachSet(<<>>, data.blocks)
       IN  IF r.threw
           THEN [blockMap |-> r.map, worldData |-> st.worldData,
                 version |-> st.version, threw |-> TRUE]
           ELSE [blockMap |-> r.map,
                 worldData |-> [version |-> data.version, size |-> data.size,
                                metadata |-> data.metadata],
                 version |-> st.version + 1, threw |-> FALSE]

----------------------------------------------------------------------------
(* VoxelCanvas: geometry.  World coordinates are held doubled, so that the  *)
(* half-unit offsets of the source stay integers: a world number w is the   *)
(* integer 2 * w.                                                           *)

WORLD_SIZE == 64

\* the catalog's `collision` attribute: false for the wall items only
Collision(id) == id \in BLOCK_BY_ID /\ id \notin 30..35

\* Math.floor of the number whose double is w2
Floor2(w2) == w2 \div 2

\* variant: the offset is WORLD_SIZE instead of WORLD_SIZE / 2
MeshPosition_WholeSize(x, y, z) ==
  <<2 * x - 2 * WORLD_SIZE + 1, 2 * y + 1, 2 * z - 2 * WORLD_SIZE + 1>>

\* mesh.position.set(x - WORLD_SIZE / 2 + 0.5, y + 0.5, z - WORLD_SIZE / 2 + 0.5)
MeshPosition(x, y, z) ==
  <<2 * x - WORLD_SIZE + 1, 2 * y + 1, 2 * z - WORLD_SIZE + 1>>

\* the mesh the sync effect creates for a map entry
Mesh(key, id) ==
  LET c == keyToPosition(key)
  IN  [key |-> key, id |-> id, position |-> MeshPosition(c[1], c[2], c[3]),
       inScene |-> TRUE]

NoMesh == [key |-> <<>>, id |-> 0, position |-> <<0, 0, 0>>, inScene |-> FALSE]

\* the block sync effect: a mesh for every entry with a catalog block and no
\* mesh yet under its key; the meshes whose key left the map are removed
SyncMeshes(ms, bm) ==
  LET newKeys == { bm[i].key : i \in 1..Len(bm) }
      created == { Mesh(bm[i].key, bm[i].id) :
                     i \in { j \in 1..Len(bm) :
                               /\ bm[j].id \in BLOCK_BY_ID
                               /\ \A m \in ms : m.key # bm[j].key } }
  IN  { m \in ms : m.key \in newKeys } \cup created

\* the effect runs after a render in which blockMap or version changed; the
\* map is the same object all along, so it runs when version changed
SyncEffect ==
  blockMeshes' = IF version' # version
                 THEN SyncMeshes(blockMeshes, blockMap')
                 ELSE blockMeshes

----------------------------------------------------------------------------
(* VoxelCanvas: ray queries.  Raycaster.intersectObjects is three.js; which *)
(* object a ray meets first depends on the camera position and the pointer, *)
(* so the first intersection is any of: none, a point of the ground plane,  *)
(* a face of a block mesh that is a child of the scene.                     *)

\* points of the ground plane, doubled: (-29.5, -29.5) lies in cell (2, 0, 2),
\* (0.5, 0.5) in cell (32, 0, 32)
GroundPoints == { <<-59, 0, -59>>, <<1, 0, 1>> }

\* face normals of a BoxGeometry
FaceNormals ==
  { <<1, 0, 0>>, <<-1, 0, 0>>, <<0, 1, 0>>, <<0, -1, 0>>,
    <<0, 0, 1>>, <<0, 0, -1>> }

NoHit ==
  [kind |-> "none", point |-> <<0, 0, 0>>, object |-> NoMesh,
   normal |-> <<0, 0, 0>>]

GroundHit(p) ==
  [kind |-> "ground", point |-> p, object |-> NoMesh, normal |-> <<0, 1, 0>>]

BlockHit(m, n) ==
  [kind |-> "block", point |-> m.position, object |-> m, normal |-> n]

\* scene.children.filter(obj => obj.name === 'block' || obj.name === 'ground'):
\* every block mesh of the scene, whatever its block's attributes
RayObjects(ms) == { m \in ms : m.inScene }

\* intersects[0], or none when intersects is empty
FirstHits(ms) ==
  {NoHit} \cup { GroundHit(p) : p \in GroundPoints }
          \cup { BlockHit(m, n) : m \in RayObjects(ms), n \in FaceNormals }

NullIntersection ==
  [isNull |-> TRUE, gridX |-> 0, gridY |-> 0, gridZ |-> 0,
   isBlock |-> FALSE, blockKey |-> <<>>]

Intersection(gx, gy, gz, isBlock, blockKey) ==
  [isNull |-> FALSE, gridX |-> gx, gridY |-> gy, gridZ |-> gz,
   isBlock |-> isBlock, blockKey |-> blockKey]

\* variant: the ground cell is taken without the WORLD_SIZE / 2 offset
getFPSIntersection_NoOffset(hit) ==
  IF hit.kind = "none" THEN NullIntersection
  ELSE IF hit.kind = "ground"
  THEN Intersection(Floor2(hit.point[1]), 0, Floor2(hit.point[3]),
                    FALSE, <<>>)
  ELSE LET pos == hit.object.position
           n == hit.normal
       IN  Intersection(Floor2(pos[1] + 2 * n[1] + WORLD_SIZE),
                        Floor2(pos[2] + 2 * n[2] - 1),
                        Floor2(pos[3] + 2 * n[3] + WORLD_SIZE),
                        TRUE, hit.object.key)

\* getFPSIntersection, from the first intersection of the camera's ray
getFPSIntersection(hit) ==
  IF hit.kind = "none" THEN NullIntersection
  ELSE IF hit.kind = "ground"
  THEN Intersection(Floor2(hit.point[1] + WORLD_SIZE), 0,
                    Floor2(hit.point[3] + WORLD_SIZE), FALSE, <<>>)
  ELSE LET pos == hit.object.position
           n == hit.normal
       IN  Intersection(Floor2(pos[1] + 2 * n[1] + WORLD_SIZE),
                        Floor2(pos[2] + 2 * n[2] - 1),
                        Floor2(pos[3] + 2 * n[3] + WORLD_SIZE),
                        TRUE, hit.object.key)

\* variant: the face normal is left out of the target
getIntersection_NoNormal(hit) ==
  IF hit.kind = "none" THEN NullIntersection
  ELSE IF hit.kind = "ground"
  THEN Intersection(Floor2(hit.point[1] + WORLD_SIZE), 0,
                    Floor2(hit.point[3] + WORLD_SIZE), FALSE, <<>>)
  ELSE LET pos == hit.object.position
       IN  Intersection(Floor2(pos[1] + WORLD_SIZE),
                        Floor2(pos[2] - 1),
                        Floor2(pos[3] + WORLD_SIZE),
                        TRUE, hit.object.key)

\* getIntersection, from the first intersection of the pointer's ray
getIntersection(hit) ==
  IF hit.kind = "none" THEN NullIntersection
  ELSE IF hit.kind = "ground"
  THEN Intersection(Floor2(hit.point[1] + WORLD_SIZE), 0,
                    Floor2(hit.point[3] + WORLD_SIZE), FALSE, <<>>)
  ELSE LET pos == hit.object.position
           n == hit.normal
       IN  Intersection(Floor2(pos[1] + 2 * n[1] + WORLD_SIZE),
                        Floor2(pos[2] + 2 * n[2] - 1),
                        Floor2(pos[3] + 2 * n[3] + WORLD_SIZE),
                        TRUE, hit.object.key)

----------------------------------------------------------------------------
(* VoxelEditor and VoxelCanvas: state after mount, inputs, handlers.        *)
(* Angles are in milliradians; velocities, directions and factors are in   *)
(* thousandths.  The camera's position, the preview mesh and the drag       *)
(* placement of handleMouseMove are not part of this model.                 *)

DEFAULT_HOTBAR == <<1, 2, 3, 6, 11, 70, 72, 73, 75>>

\* 0.002 rad per pixel of pointer movement
FPS_MOUSE_SENSITIVITY == 2

\* Math.PI / 2 - 0.01
PitchLimit == 1570 - 10

\* mutations of the store made with the canvas mounted
MaxCanvasVersion == 2

\* how far handlePointerLockMove may turn the yaw away from the initial one
MaxTurn == 10

\* camera.position.set(20, 15, 20); camera.lookAt(0, 0, 0), as YXZ angles
CameraInitial == [yaw |-> 785, pitch |-> -488]

\* variant: only the upper limit is applied
ClampPitch_NoLower(p) ==
  IF p > PitchLimit THEN PitchLimit ELSE p

\* Math.max(-Math.PI / 2 + 0.01, Math.min(Math.PI / 2 - 0.01, p))
ClampPitch(p) ==
  IF p > PitchLimit THEN PitchLimit
  ELSE IF p < -PitchLimit THEN -PitchLimit ELSE p

\* hotbar slots reached with the digit keys, blocks picked in the inventory,
\* mouse buttons, pointer movements (movementX, movementY)
HotbarIndices == {0, 1}
InventoryIds == {30}
Buttons == {0, 2}
Movements == { <<5, 1100>> }

\* pointer movements that reach both pitch limits
PitchMovements == { <<5, 1100>>, <<-5, -1600>> }

SelectedOf(slots, index) == slots[index + 1]

\* const selectedBlockId = hotbarSlots[selectedHotbarIndex]
selectedBlockId == SelectedOf(hotbarSlots, selectedHotbarIndex)

NoUi ==
  [event |-> "none", button |-> 0, queried |-> FALSE, hit |-> NoHit,
   query |-> NullIntersection, pose |-> CameraInitial]

\* a pointer handler that returned before its ray query
UiEvent(event, button) == [NoUi EXCEPT !.event = event, !.button = button]

\* a pointer handler, the first intersection of its ray and what its query
\* returned; pose is the camera rotation the ray was built from
UiQuery(event, button, hit, q) ==
  [event |-> event, button |-> button, queried |-> TRUE, hit |-> hit,
   query |-> q, pose |-> camera]

\* FPS_MOVE_SPEED
FPS_MOVE_SPEED == 20

\* the largest velocity component a frame may produce
MaxSpeed == 300

\* clockRef.current.getDelta(), in milliseconds: a slow frame
FrameDeltas == {500}

\* the keys of handleKeyDown and handleKeyUp, and one they do not list
KeyCodes ==
  {"KeyW", "KeyS", "KeyA", "KeyD", "Space", "ShiftLeft", "KeyQ"}

NoMove ==
  [forward |-> FALSE, backward |-> FALSE, left |-> FALSE, right |-> FALSE,
   up |-> FALSE, down |-> FALSE]

\* the product of two numbers in thousandths, cut towards zero
Milli(a, b) ==
  IF a * b >= 0 THEN (a * b) \div 1000 ELSE -((-(a * b)) \div 1000)

\* Math.sin and Math.cos of an angle in milliradians, by their power series
Sin(a) ==
  LET a2 == Milli(a, a)
      a3 == Milli(a2, a)
      a5 == Milli(a3, a2)
      a7 == Milli(a5, a2)
  IN  a - a3 \div 6 + a5 \div 120 - a7 \div 5040

Cos(a) ==
  LET a2 == Milli(a, a)
      a4 == Milli(a2, a2)
      a6 == Milli(a4, a2)
      a8 == Milli(a6, a2)
  IN  1000 - a2 \div 2 + a4 \div 24 - a6 \div 720 + a8 \div 40320

\* Math.exp(-x) for x in thousandths, by its power series: term k is
\* x^k / k! with alternating sign
RECURSIVE ExpNegTerms(_, _, _, _)
ExpNegTerms(x, k, term, sum) ==
  IF term = 0 THEN sum
  ELSE ExpNegTerms(x, k + 1, -(Milli(term, x) \div (k + 1)), sum + term)

ExpNeg(x) == ExpNegTerms(x, 0, 1000, 0)

\* Number(flag)
Num(flag) == IF flag THEN 1 ELSE 0

\* moveX and moveZ of animate: forward * inputZ + right * inputX
HorizontalMove(move, yaw) ==
  LET forwardX == -Sin(yaw)
      forwardZ == -Cos(yaw)
      rightX == Cos(yaw)
      rightZ == -Sin(yaw)
      inputZ == Num(move.forward) - Num(move.backward)
      inputX == Num(move.right) - Num(move.left)
  IN  [x |-> forwardX * inputZ + rightX * inputX,
       z |-> forwardZ * inputZ + rightZ * inputX]

\* velocityRef after the thrust and the damping of one frame
Integrate(v, move, yaw, delta) ==
  LET h == HorizontalMove(move, yaw)
      inputY == Num(move.up) - Num(move.down)
      damping == ExpNeg(8 * delta)
      vx == v[1] + Milli(h.x * FPS_MOVE_SPEED, delta)
      vz == v[3] + Milli(h.z * FPS_MOVE_SPEED, delta)
      vy == v[2] + Milli(inputY * 1000 * FPS_MOVE_SPEED, delta)
  IN  <<Milli(vx, damping), Milli(vy, damping), Milli(vz, damping)>>

\* keydown on the window
handleKeyDown(code) ==
  /\ dispatch = <<>>
  /\ moveState' =
       CASE code = "KeyW" -> [moveState EXCEPT !.forward = TRUE]
         [] code = "KeyS" -> [moveState EXCEPT !.backward = TRUE]
         [] code = "KeyA" -> [moveState EXCEPT !.left = TRUE]
         [] code = "KeyD" -> [moveState EXCEPT !.right = TRUE]
         [] code = "Space" -> [moveState EXCEPT !.up = TRUE]
         [] code = "ShiftLeft" -> [moveState EXCEPT !.down = TRUE]
         [] OTHER -> moveState
  /\ released' = "none"
  /\ ui' = NoUi
  /\ UNCHANGED storeVars
  /\ UNCHANGED <<hotbarSlots, selectedHotbarIndex, cameraMode,
                 pointerLockElement, isPointerLocked, blockMeshes, camera,
                 look, dispatch, velocity>>

\* keyup on the window
handleKeyUp(code) ==
  /\ dispatch = <<>>
  /\ moveState' =
       CASE code = "KeyW" -> [moveState EXCEPT !.forward = FALSE]
         [] code = "KeyS" -> [moveState EXCEPT !.backward = FALSE]
         [] code = "KeyA" -> [moveState EXCEPT !.left = FALSE]
         [] code = "KeyD" -> [moveState EXCEPT !.right = FALSE]
         [] code = "Space" -> [moveState EXCEPT !.up = FALSE]
         [] code = "ShiftLeft" -> [moveState EXCEPT !.down = FALSE]
         [] OTHER -> moveState
  /\ released' = "none"
  /\ ui' = NoUi
  /\ UNCHANGED storeVars
  /\ UNCHANGED <<hotbarSlots, selectedHotbarIndex, cameraMode,
                 pointerLockElement, isPointerLocked, blockMeshes, camera,
                 look, dispatch, velocity>>

\* the scene initialisation effect, whose dependencies hold selectedBlockId:
\* a new Scene and a new camera; the meshes of blockMeshesRef stay children
\* of the scene that was dropped
SceneEffect ==
  IF SelectedOf(hotbarSlots', selectedHotbarIndex') # selectedBlockId
  THEN /\ blockMeshes' = { [m EXCEPT !.inScene = FALSE] : m \in blockMeshes }
       /\ camera' = CameraInitial
  ELSE UNCHANGED <<blockMeshes, camera>>

\* Digit1..Digit9, or a click on a hotbar slot
setSelectedHotbarIndex(index) ==
  /\ dispatch = <<>>
  /\ selectedHotbarIndex' = index
  /\ UNCHANGED hotbarSlots
  /\ SceneEffect
  /\ ui' = NoUi
  /\ UNCHANGED storeVars
  /\ UNCHANGED <<moveState, velocity>>
  /\ released' = "none"
  /\ UNCHANGED <<cameraMode, pointerLockElement, isPointerLocked, look,
                 dispatch>>

\* a block picked in the inventory replaces the selected slot
handleSelectBlock(blockId) ==
  /\ dispatch = <<>>
  /\ hotbarSlots' = [hotbarSlots EXCEPT ![selectedHotbarIndex + 1] = blockId]
  /\ UNCHANGED selectedHotbarIndex
  /\ SceneEffect
  /\ ui' = NoUi
  /\ UNCHANGED storeVars
  /\ UNCHANGED <<moveState, velocity>>
  /\ released' = "none"
  /\ UNCHANGED <<cameraMode, pointerLockElement, isPointerLocked, look,
                 dispatch>>

\* KeyC: setCameraMode(prev => prev === 'fps' ? 'orbit' : 'fps'), then the
\* camera mode effect
toggleCameraMode ==
  /\ dispatch = <<>>
  /\ cameraMode' = IF cameraMode = "fps" THEN "orbit" ELSE "fps"
  /\ IF cameraMode' = "orbit"
     THEN /\ pointerLockElement' = FALSE
          /\ UNCHANGED look
     ELSE /\ look' = [yaw |-> camera.yaw, pitch |-> ClampPitch(camera.pitch)]
          /\ UNCHANGED pointerLockElement
  /\ velocity' = IF cameraMode' = "orbit" THEN velocity ELSE <<0, 0, 0>>
  /\ UNCHANGED moveState
  /\ released' = "none"
  /\ ui' = NoUi
  /\ UNCHANGED storeVars
  /\ UNCHANGED <<hotbarSlots, selectedHotbarIndex, isPointerLocked,
                 blockMeshes, camera, dispatch>>

\* the editor with the debug panel: toggleCameraMode goes orbit -> fps ->
\* player -> orbit and hands the value to the same canvas, whose camera mode
\* effect follows
toggleCameraModeCycle ==
  /\ dispatch = <<>>
  /\ cameraMode' = IF cameraMode = "orbit" THEN "fps"
                   ELSE IF cameraMode = "fps" THEN "player" ELSE "orbit"
  /\ IF cameraMode' = "orbit"
     THEN /\ pointerLockElement' = FALSE
          /\ UNCHANGED look
     ELSE /\ look' = [yaw |-> camera.yaw, pitch |-> ClampPitch(camera.pitch)]
          /\ UNCHANGED pointerLockElement
  /\ velocity' = IF cameraMode' = "orbit" THEN velocity ELSE <<0, 0, 0>>
  /\ UNCHANGED moveState
  /\ released' = "none"
  /\ ui' = NoUi
  /\ UNCHANGED storeVars
  /\ UNCHANGED <<hotbarSlots, selectedHotbarIndex, isPointerLocked,
                 blockMeshes, camera, dispatch>>

\* onClick of the container: requestPointerLock() in fps mode
handleClick ==
  /\ dispatch = <<>>
  /\ pointerLockElement' = IF cameraMode = "fps" THEN TRUE
                           ELSE pointerLockElement
  /\ ui' = NoUi
  /\ UNCHANGED storeVars
  /\ UNCHANGED <<moveState, velocity>>
  /\ released' = "none"
  /\ UNCHANGED <<hotbarSlots, selectedHotbarIndex, cameraMode,
                 isPointerLocked, blockMeshes, camera, look, dispatch>>

\* the user leaves pointer lock with Escape
exitPointerLock ==
  /\ dispatch = <<>>
  /\ pointerLockElement
  /\ pointerLockElement' = FALSE
  /\ ui' = NoUi
  /\ UNCHANGED storeVars
  /\ UNCHANGED <<moveState, velocity>>
  /\ released' = "none"
  /\ UNCHANGED <<hotbarSlots, selectedHotbarIndex, cameraMode,
                 isPointerLocked, blockMeshes, camera, look, dispatch>>

\* variant: a lost lock resets the velocity and leaves the thrust flags
handleLockChange_KeepFlags ==
  /\ dispatch = <<>>
  /\ isPointerLocked # pointerLockElement
  /\ isPointerLocked' = pointerLockElement
  /\ IF ~pointerLockElement
     THEN /\ velocity' = <<0, 0, 0>>
          /\ UNCHANGED moveState
          /\ released' = IF velocity # <<0, 0, 0>> /\ moveState # NoMove
                         THEN "moving" ELSE "idle"
     ELSE /\ UNCHANGED <<moveState, velocity>>
          /\ released' = "none"
  /\ ui' = NoUi
  /\ UNCHANGED storeVars
  /\ UNCHANGED <<hotbarSlots, selectedHotbarIndex, cameraMode,
                 pointerLockElement, blockMeshes, camera, look, dispatch>>

\* pointerlockchange
handleLockChange ==
  /\ dispatch = <<>>
  /\ isPointerLocked # pointerLockElement
  /\ isPointerLocked' = pointerLockElement
  /\ IF ~pointerLockElement
     THEN /\ velocity' = <<0, 0, 0>>
          /\ moveState' = NoMove
          /\ released' = IF velocity # <<0, 0, 0>> /\ moveState # NoMove
                         THEN "moving" ELSE "idle"
     ELSE /\ UNCHANGED <<moveState, velocity>>
          /\ released' = "none"
  /\ ui' = NoUi
  /\ UNCHANGED storeVars
  /\ UNCHANGED <<hotbarSlots, selectedHotbarIndex, cameraMode,
                 pointerLockElement, blockMeshes, camera, look, dispatch>>

\* yawRef and pitchRef after a pointer movement
handlePointerLockMove(movementX, movementY) ==
  [yaw |-> look.yaw - movementX * FPS_MOUSE_SENSITIVITY,
   pitch |-> ClampPitch(look.pitch - movementY * FPS_MOUSE_SENSITIVITY)]

\* mousemove on the document
handleMouseMoveLock(movementX, movementY) ==
  /\ dispatch = <<>>
  /\ look' = IF isPointerLocked
             THEN handlePointerLockMove(movementX, movementY)
             ELSE look
  /\ look'.yaw - CameraInitial.yaw \in -MaxTurn..MaxTurn
       \/ ~isPointerLocked
  /\ ui' = NoUi
  /\ UNCHANGED storeVars
  /\ UNCHANGED <<moveState, velocity>>
  /\ released' = "none"
  /\ UNCHANGED <<hotbarSlots, selectedHotbarIndex, cameraMode,
                 pointerLockElement, isPointerLocked, blockMeshes, camera,
                 dispatch>>

\* one frame, delta milliseconds after the one before: in fps mode under
\* pointer lock the thrust is integrated and the camera takes the rotation
\* of yawRef and pitchRef
animate(delta) ==
  /\ dispatch = <<>>
  /\ IF cameraMode # "orbit" /\ isPointerLocked
     THEN /\ velocity' = Integrate(velocity, moveState, look.yaw, delta)
          /\ \A i \in 1..3 : velocity'[i] \in -MaxSpeed..MaxSpeed
          /\ camera' = look
     ELSE UNCHANGED <<velocity, camera>>
  /\ UNCHANGED moveState
  /\ released' = "none"
  /\ ui' = NoUi
  /\ UNCHANGED storeVars
  /\ UNCHANGED <<hotbarSlots, selectedHotbarIndex, cameraMode,
                 pointerLockElement, isPointerLocked, blockMeshes, look,
                 dispatch>>

----------------------------------------------------------------------------
(* Operations; each one also records what ran and what it returned *)

Init ==
  /\ blockMap = <<>>
  /\ worldData = createEmptyWorld(DefaultSizeX, DefaultSizeY, DefaultSizeZ)
  /\ version = 0
  /\ op = "init"
  /\ args = NoArgs
  /\ ret = NoRet
  /\ fresh = NoFresh
  /\ repeated = "none"
  /\ hotbarSlots = DEFAULT_HOTBAR
  /\ selectedHotbarIndex = 0
  /\ cameraMode = "orbit"
  /\ pointerLockElement = FALSE
  /\ isPointerLocked = FALSE
  /\ blockMeshes = {}
  /\ camera = CameraInitial
  /\ look = [yaw |-> 0, pitch |-> 0]
  /\ dispatch = <<>>
  /\ ui = NoUi
  /\ moveState = NoMove
  /\ velocity = <<0, 0, 0>>
  /\ released = "none"

\* variant: the lower bound of y is not tested
InBounds_NoLower(x, y, z) ==
  ~ ( x < 0 \/ x >= worldData.size.x
      \/ y >= worldData.size.y
      \/ z < 0 \/ z >= worldData.size.z )

\* variant: the upper bound is tested with > instead of >=
InBounds_OffByOne(x, y, z) ==
  ~ ( x < 0 \/ x > worldData.size.x
      \/ y < 0 \/ y > worldData.size.y
      \/ z < 0 \/ z > worldData.size.z )

InBounds(x, y, z) ==
  ~ ( x < 0 \/ x >= worldData.size.x
      \/ y < 0 \/ y >= worldData.size.y
      \/ z < 0 \/ z >= worldData.size.z )

\* "same": the operation before was a successful place of the same id at the
\* same coordinate; "overwrite": of another id at the same coordinate
Repeats(x, y, z, blockId, ok) ==
  IF ok /\ op = "place" /\ ret.ok /\ <<args.x, args.y, args.z>> = <<x, y, z>>
  THEN IF args.id = blockId THEN "same" ELSE "overwrite"
  ELSE "none"

\* variant: the block is stored before the bounds are checked
placeBlock_SetBeforeCheck(x, y, z, blockId) ==
  /\ op' = "place"
  /\ args' = Args(x, y, z, blockId)
  /\ fresh' = NoFresh
  /\ IF blockId \notin BLOCK_BY_ID
     THEN /\ ret' = RetOk(FALSE)
          /\ UNCHANGED <<blockMap, worldData, version>>
     ELSE /\ blockMap' = MapSet(blockMap, positionToKey(x, y, z), blockId)
          /\ IF ~InBounds(x, y, z)
             THEN /\ ret' = RetOk(FALSE)
                  /\ UNCHANGED <<worldData, version>>
             ELSE /\ version < MaxVersion
                  /\ version' = version + 1
                  /\ ret' = RetOk(TRUE)
                  /\ UNCHANGED worldData
  /\ repeated' = Repeats(x, y, z, blockId, ret'.ok)

placeBlock(x, y, z, blockId) ==
  /\ op' = "place"
  /\ args' = Args(x, y, z, blockId)
  /\ fresh' = NoFresh
  /\ IF blockId \notin BLOCK_BY_ID \/ ~InBounds(x, y, z)
     THEN /\ ret' = RetOk(FALSE)
          /\ UNCHANGED <<blockMap, worldData, version>>
     ELSE /\ version < MaxVersion
          /\ blockMap' = MapSet(blockMap, positionToKey(x, y, z), blockId)
          /\ version' = version + 1
          /\ ret' = RetOk(TRUE)
          /\ UNCHANGED worldData
  /\ repeated' = Repeats(x, y, z, blockId, ret'.ok)

\* variant: the revision is bumped outside the has() test
removeBlock_AlwaysBump(x, y, z) ==
  /\ version < MaxVersion
  /\ op' = "remove"
  /\ args' = Args(x, y, z, 0)
  /\ fresh' = NoFresh
  /\ repeated' = "none"
  /\ ret' = RetOk(MapHas(blockMap, positionToKey(x, y, z)))
  /\ blockMap' = MapDelete(blockMap, positionToKey(x, y, z))
  /\ version' = version + 1
  /\ UNCHANGED worldData

removeBlock(x, y, z) ==
  /\ op' = "remove"
  /\ args' = Args(x, y, z, 0)
  /\ fresh' = NoFresh
  /\ repeated' = "none"
  /\ IF MapHas(blockMap, positionToKey(x, y, z))
     THEN /\ version < MaxVersion
          /\ blockMap' = MapDelete(blockMap, positionToKey(x, y, z))
          /\ version' = version + 1
          /\ ret' = RetOk(TRUE)
          /\ UNCHANGED worldData
     ELSE /\ ret' = RetOk(FALSE)
          /\ UNCHANGED <<blockMap, worldData, version>>

GetBlock(x, y, z) ==
  /\ op' = "get"
  /\ args' = Args(x, y, z, 0)
  /\ ret' = RetVal(getBlock(x, y, z))
  /\ fresh' = NoFresh
  /\ repeated' = "none"
  /\ UNCHANGED <<blockMap, worldData, version>>

HasBlock(x, y, z) ==
  /\ op' = "has"
  /\ args' = Args(x, y, z, 0)
  /\ ret' = RetOk(hasBlock(x, y, z))
  /\ fresh' = NoFresh
  /\ repeated' = "none"
  /\ UNCHANGED <<blockMap, worldData, version>>

GetBlockCount ==
  /\ op' = "count"
  /\ args' = NoArgs
  /\ ret' = RetVal(<<getBlockCount>>)
  /\ fresh' = NoFresh
  /\ repeated' = "none"
  /\ UNCHANGED <<blockMap, worldData, version>>

ExportWorld ==
  /\ op' = "export"
  /\ args' = NoArgs
  /\ ret' = [ok |-> TRUE, threw |-> FALSE, val |-> <<>>,
             data |-> <<exportWorld>>]
  /\ fresh' = NoFresh
  /\ repeated' = "none"
  /\ UNCHANGED <<blockMap, worldData, version>>

\* variant: the map is emptied without bumping the revision
clearWorld_NoBump ==
  /\ op' = "clear"
  /\ args' = NoArgs
  /\ blockMap' = <<>>
  /\ ret' = RetOk(TRUE)
  /\ fresh' = NoFresh
  /\ repeated' = "none"
  /\ UNCHANGED <<worldData, version>>

\* variant: an empty map is left alone, revision included
clearWorld_SkipEmpty ==
  /\ version < MaxVersion
  /\ op' = "clear"
  /\ args' = NoArgs
  /\ blockMap' = <<>>
  /\ version' = IF blockMap = <<>> THEN version ELSE version + 1
  /\ ret' = RetOk(TRUE)
  /\ fresh' = NoFresh
  /\ repeated' = "none"
  /\ UNCHANGED worldData

clearWorld ==
  /\ version < MaxVersion
  /\ op' = "clear"
  /\ args' = NoArgs
  /\ blockMap' = <<>>
  /\ version' = version + 1
  /\ ret' = RetOk(TRUE)
  /\ fresh' = NoFresh
  /\ repeated' = "none"
  /\ UNCHANGED worldData

\* reader.onload of handleFileChange: parse and check, import, report
handleFileChange(data) ==
  /\ op' = "import"
  /\ args' = [NoArgs EXCEPT !.data = data]
  /\ fresh' = NoFresh
  /\ repeated' = "none"
  /\ IF importWorldFromJSON(data)
     THEN /\ ret' = RetOk(FALSE)
          /\ UNCHANGED <<blockMap, worldData, version>>
     ELSE LET r == importWorld([blockMap |-> blockMap,
                                worldData |-> worldData,
                                version |-> version], data)
          IN  /\ r.version <= MaxVersion
              /\ blockMap' = r.blockMap
              /\ worldData' = r.worldData
              /\ version' = r.version
              /\ ret' = RetOk(~r.threw)

\* exportWorld() of this store handed to importWorld of a store just created
ExportImportFresh ==
  /\ op' = "roundtrip"
  /\ args' = NoArgs
  /\ ret' = [ok |-> TRUE, threw |-> FALSE, val |-> <<>>,
             data |-> <<exportWorld>>]
  /\ LET r == importWorld(NoFresh, exportWorld)
     IN  fresh' = [used |-> TRUE, blockMap |-> r.blockMap,
                   worldData |-> r.worldData, version |-> r.version]
  /\ repeated' = "none"
  /\ UNCHANGED <<blockMap, worldData, version>>

\* VoxelEditor.handlePlaceBlock
handlePlaceBlock(x, y, z) ==
  IF selectedBlockId # 0
  THEN placeBlock(x, y, z, selectedBlockId)
  ELSE UNCHANGED storeVars

\* VoxelEditor.handleRemoveBlock
handleRemoveBlock(x, y, z) == removeBlock(x, y, z)

\* variant: a secondary press removes at the target cell of any intersection
handleFPSMouseDown_AnyTarget(button, hit) ==
  IF ~isPointerLocked
  THEN /\ ui' = UiEvent("handleFPSMouseDown", button)
       /\ UNCHANGED storeVars
  ELSE LET q == getFPSIntersection(hit)
       IN  /\ ui' = UiQuery("handleFPSMouseDown", button, hit, q)
           /\ IF button = 0 /\ ~q.isNull
              THEN handlePlaceBlock(q.gridX, q.gridY, q.gridZ)
              ELSE IF button = 2 /\ ~q.isNull
              THEN handleRemoveBlock(q.gridX, q.gridY, q.gridZ)
              ELSE UNCHANGED storeVars

\* handleFPSMouseDown: the query along the camera's direction, then the
\* editor's callback
handleFPSMouseDown(button, hit) ==
  IF ~isPointerLocked
  THEN /\ ui' = UiEvent("handleFPSMouseDown", button)
       /\ UNCHANGED storeVars
  ELSE LET q == getFPSIntersection(hit)
       IN  /\ ui' = UiQuery("handleFPSMouseDown", button, hit, q)
           /\ IF button = 0 /\ ~q.isNull
              THEN handlePlaceBlock(q.gridX, q.gridY, q.gridZ)
              ELSE IF button = 2 /\ ~q.isNull /\ q.isBlock
              THEN LET c == keyToPosition(q.blockKey)
                   IN  handleRemoveBlock(c[1], c[2], c[3])
              ELSE UNCHANGED storeVars

\* mousedown on the container (orbit mode only); under pointer lock the
\* document's listener receives the same event next
handleMouseDown(button, hit) ==
  /\ dispatch = <<>>
  /\ dispatch' = IF isPointerLocked THEN <<button>> ELSE <<>>
  /\ IF cameraMode # "orbit"
     THEN /\ ui' = UiEvent("handleMouseDown", button)
          /\ UNCHANGED storeVars
     ELSE LET q == getIntersection(hit)
          IN  /\ ui' = UiQuery("handleMouseDown", button, hit, q)
              /\ IF button = 0 /\ ~q.isNull
                 THEN handlePlaceBlock(q.gridX, q.gridY, q.gridZ)
                 ELSE IF button = 2 /\ ~q.isNull /\ q.isBlock
                 THEN LET c == keyToPosition(q.blockKey)
                      IN  handleRemoveBlock(c[1], c[2], c[3])
                 ELSE UNCHANGED storeVars
  /\ version' <= MaxCanvasVersion
  /\ SyncEffect
  /\ UNCHANGED <<hotbarSlots, selectedHotbarIndex, cameraMode,
                 pointerLockElement, isPointerLocked, camera, look>>
  /\ UNCHANGED <<moveState, velocity>>
  /\ released' = "none"

\* mousedown on the document
handleMouseDownLock(hit) ==
  /\ dispatch # <<>>
  /\ dispatch' = <<>>
  /\ handleFPSMouseDown(dispatch[1], hit)
  /\ version' <= MaxCanvasVersion
  /\ SyncEffect
  /\ UNCHANGED <<hotbarSlots, selectedHotbarIndex, cameraMode,
                 pointerLockElement, isPointerLocked, camera, look>>
  /\ UNCHANGED <<moveState, velocity>>
  /\ released' = "none"

\* what the canvas does after a handler of the editor that is not its own
CanvasAfter ==
  /\ dispatch = <<>>
  /\ version' <= MaxCanvasVersion
  /\ SyncEffect
  /\ ui' = NoUi
  /\ UNCHANGED <<hotbarSlots, selectedHotbarIndex, cameraMode,
                 pointerLockElement, isPointerLocked, camera, look, dispatch>>
  /\ UNCHANGED <<moveState, velocity>>
  /\ released' = "none"

\* the Clear control, confirmed
handleClear == clearWorld /\ CanvasAfter

\* files that import whole and bring a block the catalog lacks
CanvasImportSamples ==
  { d \in ImportSamples :
      /\ ~importWorldFromJSON(d)
      /\ ~importWorld(NoFresh, d).threw
      /\ \E i \in 1..Len(d.blocks) : d.blocks[i].id \notin BLOCK_BY_ID }

\* a file picked in the Import control, with the canvas mounted
handleImport(data) == handleFileChange(data) /\ CanvasAfter

NextCanvas ==
  \/ \E index \in HotbarIndices : setSelectedHotbarIndex(index)
  \/ \E id \in InventoryIds : handleSelectBlock(id)
  \/ \E button \in Buttons, hit \in FirstHits(blockMeshes) :
       handleMouseDown(button, hit)
  \/ handleClear
  \/ \E data \in CanvasImportSamples : handleImport(data)

SpecCanvas == Init /\ [][NextCanvas]_vars

\* an editing session without the Import control
NextEdit ==
  \/ \E index \in HotbarIndices : setSelectedHotbarIndex(index)
  \/ \E id \in InventoryIds : handleSelectBlock(id)
  \/ \E button \in Buttons, hit \in FirstHits(blockMeshes) :
       handleMouseDown(button, hit)
  \/ handleClear

SpecEdit == Init /\ [][NextEdit]_vars

NextLook ==
  \/ toggleCameraMode
  \/ handleClick
  \/ exitPointerLock
  \/ handleLockChange
  \/ \E mv \in Movements : handleMouseMoveLock(mv[1], mv[2])
  \/ \E delta \in FrameDeltas : animate(delta)
  \/ \E button \in Buttons, hit \in FirstHits(blockMeshes) :
       handleMouseDown(button, hit)
  \/ \E hit \in FirstHits(blockMeshes) : handleMouseDownLock(hit)

SpecLook == Init /\ [][NextLook]_vars

NextMove ==
  \/ toggleCameraMode
  \/ handleClick
  \/ exitPointerLock
  \/ handleLockChange
  \/ \E code \in KeyCodes : handleKeyDown(code)
  \/ \E code \in KeyCodes : handleKeyUp(code)
  \/ \E delta \in FrameDeltas : animate(delta)

SpecMove == Init /\ [][NextMove]_vars

NextPitch ==
  \/ toggleCameraMode
  \/ handleClick
  \/ exitPointerLock
  \/ handleLockChange
  \/ \E mv \in PitchMovements : handleMouseMoveLock(mv[1], mv[2])
  \/ \E delta \in FrameDeltas : animate(delta)

SpecPitch == Init /\ [][NextPitch]_vars

\* the canvas under the editor with the debug panel
NextCycle ==
  \/ toggleCameraModeCycle
  \/ handleClick
  \/ exitPointerLock
  \/ handleLockChange
  \/ \E mv \in PitchMovements : handleMouseMoveLock(mv[1], mv[2])
  \/ \E delta \in FrameDeltas : animate(delta)

SpecCycle == Init /\ [][NextCycle]_vars

----------------------------------------------------------------------------
(* The store driven on its own, without the canvas *)

Next ==
  \/ /\ \E c \in Coords, id \in Ids : placeBlock(c[1], c[2], c[3], id)
     /\ UNCHANGED canvasVars
  \/ /\ \E c \in Coords : removeBlock(c[1], c[2], c[3])
     /\ UNCHANGED canvasVars
  \/ /\ \E c \in QueryCoords : GetBlock(c[1], c[2], c[3])
     /\ UNCHANGED canvasVars
  \/ /\ \E c \in QueryCoords : HasBlock(c[1], c[2], c[3])
     /\ UNCHANGED canvasVars
  \/ GetBlockCount /\ UNCHANGED canvasVars
  \/ ExportWorld /\ UNCHANGED canvasVars
  \/ clearWorld /\ UNCHANGED canvasVars
  \/ /\ \E data \in ImportSamples : handleFileChange(data)
     /\ UNCHANGED canvasVars
  \/ ExportImportFresh /\ UNCHANGED canvasVars

Spec == Init /\ [][Next]_vars

TypeOK ==
  /\ version \in 0..MaxVersion
  /\ \A i, j \in 1..Len(blockMap) : blockMap[i].key = blockMap[j].key => i = j

----------------------------------------------------------------------------
(* Properties *)

Key(c) == positionToKey(c[1], c[2], c[3])

ArgCoord(a) == <<a.x, a.y, a.z>>

\* the coordinate lies in [0, size.x) x [0, size.y) x [0, size.z)
Within(c, size) ==
  /\ 0 <= c[1] /\ c[1] < size.x
  /\ 0 <= c[2] /\ c[2] < size.y
  /\ 0 <= c[3] /\ c[3] < size.z

\* what get, has, count and export show of map m with world data wd
SameObservable(m1, wd1, m2, wd2) ==
  /\ \A c \in Coords : MapGet(m1, Key(c)) = MapGet(m2, Key(c))
  /\ \A c \in Coords : MapHas(m1, Key(c)) = MapHas(m2, Key(c))
  /\ Len(m1) = Len(m2)
  /\ ExportOf(wd1, m1) = ExportOf(wd2, m2)

\* C1: place(x,y,z,id) succeeds exactly when id is in the catalog and the
\* coordinate is inside the declared size on all three axes; on success the
\* store maps (x,y,z) to id, every other coordinate keeps its mapping and
\* the revision grows by exactly 1.
C1_PlaceContract ==
  [][ op' = "place" =>
        LET c == ArgCoord(args')
        IN  /\ ret'.ok <=> ( args'.id \in BLOCK_BY_ID
                             /\ Within(c, worldData.size) )
            /\ ret'.ok =>
                 /\ MapGet(blockMap', Key(c)) = <<args'.id>>
                 /\ \A d \in Coords \ {c} :
                      MapGet(blockMap', Key(d)) = MapGet(blockMap, Key(d))
                 /\ version' = version + 1 ]_vars

\* a successful place into a world whose size an import changed, next to
\* another block
C1_Witness ==
  /\ op = "place" /\ ret.ok
  /\ worldData.size = Size(8, 8, 8)
  /\ Len(blockMap) >= 2

\* C2: a place with an unknown id or an out-of-bounds coordinate returns
\* failure, does not throw, and leaves mapping, count, size and revision
\* as they were.
C2_RejectedPlaceNoEffect ==
  [][ ( /\ op' = "place"
        /\ \/ args'.id \notin BLOCK_BY_ID
           \/ ~Within(ArgCoord(args'), worldData.size) )
      => /\ ~ret'.ok /\ ~ret'.threw
         /\ blockMap' = blockMap
         /\ Len(blockMap') = Len(blockMap)
         /\ worldData' = worldData
         /\ version' = version ]_vars

\* place(-1,0,0, valid id) rejected on an (8,8,8) world that holds blocks
C2_Witness ==
  /\ op = "place" /\ ~ret.ok
  /\ ArgCoord(args) = <<-1, 0, 0>> /\ args.id \in BLOCK_BY_ID
  /\ worldData.size = Size(8, 8, 8)
  /\ Len(blockMap) > 0 /\ version > 0

\* C3: an import attempt that reports an error leaves the block mapping, the
\* declared size and the revision exactly as they were.
C3_ImportAtomic ==
  [][ (op' = "import" /\ ~ret'.ok)
      => /\ blockMap' = blockMap
         /\ worldData' = worldData
         /\ version' = version ]_vars

\* C4: import of a parsed structure fails if and only if version, size or
\* blocks is absent.
C4_ImportFailsIffFieldAbsent ==
  [][ (op' = "import" /\ args'.data.parsed)
      => ( ~ret'.ok <=> \/ args'.data.versionKind = "absent"
                        \/ args'.data.sizeKind = "absent"
                        \/ args'.data.blocksKind = "absent" ) ]_vars

\* C5: the revision never decreases; it grows by exactly 1 on a successful
\* place, a remove of a present block, a clear and a successful import, and
\* is unchanged by get, has, count, export, a rejected place and a remove of
\* an absent coordinate.
C5_RevisionMonotonic ==
  [][ /\ version' >= version
      /\ (op' \in {"place", "remove", "import"} /\ ret'.ok)
           => version' = version + 1
      /\ op' = "clear" => version' = version + 1
      /\ op' \in {"get", "has", "count", "export"} => version' = version
      /\ (op' \in {"place", "remove"} /\ ~ret'.ok)
           => version' = version ]_vars

\* a clear of an empty store after earlier mutations
C5_Witness ==
  /\ op = "clear" /\ version >= 3 /\ blockMap = <<>>

\* C6 as stated: a second place of the same id at the same coordinate
\* changes neither what get/has/count/export show nor the revision.
C6_SecondPlaceChangesNothing ==
  [][ (repeated' = "same")
      => /\ SameObservable(blockMap', worldData', blockMap, worldData)
         /\ version' = version ]_vars

\* C6 amended: a second place of the same id at the same coordinate leaves
\* what get/has/count/export show unchanged, and the revision grows by 1.
C6_SecondPlaceKeepsContent ==
  [][ (repeated' = "same")
      => /\ SameObservable(blockMap', worldData', blockMap, worldData)
         /\ version' = version + 1 ]_vars

\* the same id placed twice in a row at one coordinate, beside another block
C6_Witness ==
  /\ repeated = "same" /\ Len(blockMap) >= 2

\* C7: place(c, A) followed by place(c, B), c in bounds and A, B in the
\* catalog, leaves get(c) = B and count() as it was after the first place.
C7_OverwriteLastWriteWins ==
  [][ ( /\ op = "place" /\ op' = "place"
        /\ ArgCoord(args') = ArgCoord(args)
        /\ Within(ArgCoord(args), worldData.size)
        /\ args.id \in BLOCK_BY_ID /\ args'.id \in BLOCK_BY_ID )
      => /\ MapGet(blockMap', Key(ArgCoord(args'))) = <<args'.id>>
         /\ Len(blockMap') = Len(blockMap) ]_vars

\* another id placed over a block placed just before
C7_Witness ==
  /\ repeated = "overwrite" /\ Len(blockMap) >= 2

\* C8: remove on an occupied coordinate reports removed; afterwards has is
\* false and get is none there, count is one less and every other
\* coordinate keeps its mapping.
C8_RemovePresent ==
  [][ ( op' = "remove" /\ MapHas(blockMap, Key(ArgCoord(args'))) )
      => LET c == ArgCoord(args')
         IN  /\ ret'.ok
             /\ ~MapHas(blockMap', Key(c))
             /\ MapGet(blockMap', Key(c)) = <<>>
             /\ Len(blockMap') = Len(blockMap) - 1
             /\ \A d \in Coords \ {c} :
                  MapGet(blockMap', Key(d)) = MapGet(blockMap, Key(d)) ]_vars

\* a block removed while others stay
C8_Witness ==
  /\ op = "remove" /\ ret.ok /\ Len(blockMap) >= 1

\* C9: remove on an unoccupied coordinate reports absent and changes
\* neither revision, count nor mapping; the state it leaves is the state it
\* found, so any number of repetitions does the same.
C9_RemoveAbsentNoOp ==
  [][ ( op' = "remove" /\ ~MapHas(blockMap, Key(ArgCoord(args'))) )
      => /\ ~ret'.ok
         /\ version' = version
         /\ Len(blockMap') = Len(blockMap)
         /\ blockMap' = blockMap ]_vars

\* an absent coordinate removed from a store that holds other blocks
C9_Witness ==
  /\ op = "remove" /\ ~ret.ok /\ Len(blockMap) >= 1 /\ version >= 1

\* C10: importing exportSnapshot() into a fresh store yields the same count,
\* the same declared size and the same get(c) for every coordinate c.
C10_ExportImportIdentity ==
  op = "roundtrip" =>
    /\ fresh.used
    /\ Len(fresh.blockMap) = getBlockCount
    /\ fresh.worldData.size = worldData.size
    /\ \A c \in Coords :
         MapGet(fresh.blockMap, Key(c)) = getBlock(c[1], c[2], c[3])

\* a round trip of a store holding a negative coordinate and two blocks
C10_Witness ==
  /\ op = "roundtrip" /\ fresh.used
  /\ getBlockCount >= 2 /\ hasBlock(-1, 0, 0)

ItemCoord(b) == <<b.x, b.y, b.z>>

\* C11: exportSnapshot() returns the current declared size and a blocks list
\* with exactly one (x,y,z,id) tuple for each occupied coordinate, carrying
\* its current id, and no tuple for an unoccupied coordinate; its length is
\* count().
C11_ExportMatchesStore ==
  op = "export" =>
    LET d == ret.data[1]
    IN  /\ d.size = worldData.size
        /\ Len(d.blocks) = getBlockCount
        /\ \A i \in 1..Len(d.blocks) :
             /\ ~d.blocks[i].isNull
             /\ MapGet(blockMap, Key(ItemCoord(d.blocks[i])))
                  = <<d.blocks[i].id>>
        /\ \A i, j \in 1..Len(d.blocks) :
             ItemCoord(d.blocks[i]) = ItemCoord(d.blocks[j]) => i = j
        /\ \A c \in Coords :
             hasBlock(c[1], c[2], c[3]) =>
               \E i \in 1..Len(d.blocks) :
                 /\ ItemCoord(d.blocks[i]) = c
                 /\ <<d.blocks[i].id>> = getBlock(c[1], c[2], c[3])

\* an export of a store with several blocks, one at an asymmetric coordinate
C11_Witness ==
  /\ op = "export" /\ getBlockCount >= 2 /\ hasBlock(1, 2, 3)

\* the id data.blocks gives a coordinate: that of the last element listing it
RECURSIVE LastIdFor(_, _)
LastIdFor(items, c) ==
  IF items = <<>> THEN <<>>
  ELSE LET b == items[Len(items)]
       IN  IF ItemCoord(b) = c THEN <<b.id>>
           ELSE LastIdFor(SubSeq(items, 1, Len(items) - 1), c)

\* C12: a successful import replaces the store wholesale: the size is
\* data.size, the occupied coordinates are exactly those data.blocks lists
\* (for a coordinate listed twice, with the id listed last), unknown ids
\* are kept, and the revision grows by 1.
C12_ImportReplaces ==
  [][ (op' = "import" /\ ret'.ok) =>
        LET data == args'.data
        IN  /\ worldData'.size = data.size
            /\ version' = version + 1
            /\ \A i \in 1..Len(blockMap') :
                 \E j \in 1..Len(data.blocks) :
                   Key(ItemCoord(data.blocks[j])) = blockMap'[i].key
            /\ \A j \in 1..Len(data.blocks) :
                 MapGet(blockMap', Key(ItemCoord(data.blocks[j])))
                   = LastIdFor(data.blocks, ItemCoord(data.blocks[j]))
            /\ \A c \in Coords :
                 MapGet(blockMap', Key(c)) = LastIdFor(data.blocks, c) ]_vars

\* an import over earlier mutations that brought an id the catalog lacks
C12_Witness ==
  /\ op = "import" /\ ret.ok /\ version >= 2
  /\ \E i \in 1..Len(blockMap) : blockMap[i].id \notin BLOCK_BY_ID

\* C13: clear() leaves no occupied coordinate, keeps the declared size and
\* bumps the revision by exactly 1, also when the store was already empty.
C13_ClearEmpties ==
  [][ op' = "clear" =>
        /\ Len(blockMap') = 0
        /\ \A c \in Coords : ~MapHas(blockMap', Key(c))
        /\ worldData'.size = worldData.size
        /\ version' = version + 1 ]_vars

\* a clear as the first mutation of the session
C13_Witness ==
  /\ op = "clear" /\ version = 1 /\ getBlockCount = 0

\* the keys of the map, and the keys of the meshes a ray is tested against
OccupiedKeys == { blockMap[i].key : i \in 1..Len(blockMap) }

RayKeys == { m.key : m \in RayObjects(blockMeshes) }

Grid(q) == <<q.gridX, q.gridY, q.gridZ>>

\* what C14 asks of a query result q for the face with normal n of mesh m
StruckAndTarget(q, m, n) ==
  LET c == keyToPosition(m.key)
  IN  /\ ~q.isNull
      /\ q.isBlock
      /\ m.position = MeshPosition(c[1], c[2], c[3])
      /\ keyToPosition(q.blockKey) = c
      /\ Grid(q) = <<c[1] + n[1], c[2] + n[2], c[3] + n[3]>>

\* C14: when the nearest hit is the block of cell (x,y,z) on the face with
\* outward normal n, the query reports (x,y,z) as the struck block and
\* (x,y,z) + n as the placement target, for each of the six faces and alike
\* in the free-fly query (getFPSIntersection) and the orbit query
\* (getIntersection).
C14_BlockHitStruckAndTarget ==
  /\ \A m \in RayObjects(blockMeshes), n \in FaceNormals :
       /\ StruckAndTarget(getFPSIntersection(BlockHit(m, n)), m, n)
       /\ StruckAndTarget(getIntersection(BlockHit(m, n)), m, n)
  /\ (ui.queried /\ ui.hit.kind = "block") =>
       StruckAndTarget(ui.query, ui.hit.object, ui.hit.normal)

\* the block of (2,0,2) hit on its top face in free-fly mode: the target
\* (2,1,2) received the block
C14_Witness ==
  /\ ui.event = "handleFPSMouseDown" /\ ui.button = 0
  /\ ui.hit.kind = "block" /\ ui.hit.normal = <<0, 1, 0>>
  /\ ui.hit.object.key = Key(<<2, 0, 2>>)
  /\ Grid(ui.query) = <<2, 1, 2>>
  /\ hasBlock(2, 0, 2) /\ hasBlock(2, 1, 2)

\* what C15 asks of a query result q for the ground point p (doubled): the
\* unit cell of elevation 0 that holds the point, and no struck block
GroundTarget(q, p) ==
  /\ ~q.isNull
  /\ ~q.isBlock
  /\ q.blockKey = <<>>
  /\ q.gridY = 0
  /\ 2 * q.gridX - WORLD_SIZE <= p[1] /\ p[1] < 2 * q.gridX - WORLD_SIZE + 2
  /\ 2 * q.gridZ - WORLD_SIZE <= p[3] /\ p[3] < 2 * q.gridZ - WORLD_SIZE + 2

\* C15: when the nearest hit is the ground plane at (px, 0, pz), the target
\* is the cell (floor(px + halfWorld), 0, floor(pz + halfWorld)) and no
\* struck block is reported, in both queries.
C15_GroundHitTarget ==
  /\ \A p \in GroundPoints :
       /\ GroundTarget(getFPSIntersection(GroundHit(p)), p)
       /\ GroundTarget(getIntersection(GroundHit(p)), p)
  /\ (ui.queried /\ ui.hit.kind = "ground") =>
       GroundTarget(ui.query, ui.hit.point)

\* the ground hit at (0.5, 0, 0.5) in an empty world: the block went to the
\* cell (32, 0, 32)
C15_Witness ==
  /\ ui.queried /\ ui.button = 0
  /\ ui.hit = GroundHit(<<1, 0, 1>>)
  /\ Grid(ui.query) = <<32, 0, 32>>
  /\ blockMap = <<[key |-> Key(<<32, 0, 32>>), id |-> 1]>>

\* world to grid as C16 states it, on a doubled world position
FloorCell(w) ==
  <<Floor2(w[1] + WORLD_SIZE), Floor2(w[2]), Floor2(w[3] + WORLD_SIZE)>>

\* C16: grid to world followed by world to grid is the identity: the centre
\* (x - halfWorld + 0.5, y + 0.5, z - halfWorld + 0.5) of a cell inside the
\* declared size converts back by floor(wx + halfWorld), floor(wy),
\* floor(wz + halfWorld) to (x,y,z).
C16_GridWorldGrid ==
  /\ \A m \in blockMeshes : FloorCell(m.position) = keyToPosition(m.key)
  /\ \A c \in Coords :
       Within(c, worldData.size) =>
         FloorCell(MeshPosition(c[1], c[2], c[3])) = c

\* a mesh the sync effect created above the ground level
C16_Witness ==
  \E m \in blockMeshes : m.inScene /\ keyToPosition(m.key) = <<2, 1, 2>>

\* C17: whenever the presentation has synced to the latest revision, the
\* block cells a ray query is tested against are exactly the occupied
\* coordinates of the store.
C17_RayTestsOccupied == RayKeys = OccupiedKeys

\* C18: a block takes part in ray intersection only if its type is
\* collidable: no mesh a ray is tested against belongs to a cell that holds
\* a block with collision = false.
C18_OnlyCollidableTested ==
  \A m \in RayObjects(blockMeshes) :
    MapHas(blockMap, m.key) => Collision(MapGet(blockMap, m.key)[1])

\* C19: a primary press whose query found nothing, and a secondary press
\* whose query found nothing or only the ground, leave the mapping, count()
\* and the revision as they were and report nothing.
C19_NoTargetNoChange ==
  [][ ( /\ ui'.event \in {"handleMouseDown", "handleFPSMouseDown"}
        /\ \/ ui'.button = 0 /\ ui'.query.isNull
           \/ ui'.button = 2 /\ (ui'.query.isNull \/ ~ui'.query.isBlock) )
      => /\ blockMap' = blockMap
         /\ Len(blockMap') = Len(blockMap)
         /\ version' = version
         /\ ret' = ret /\ op' = op ]_vars

\* a secondary press in free-fly mode that met the ground, blocks around
C19_Witness ==
  /\ ui.event = "handleFPSMouseDown" /\ ui.button = 2
  /\ ui.queried /\ ui.hit.kind = "ground"
  /\ getBlockCount >= 1

\* C20: every free-fly query whose result drives a place or a remove is made
\* with the camera rotation that holds all the look deltas received before
\* the press.
C20_QueryUsesLatestPose ==
  ( /\ ui.event = "handleFPSMouseDown" /\ ui.queried
    /\ \/ ui.button = 0 /\ ~ui.query.isNull
       \/ ui.button = 2 /\ ui.query.isBlock )
  => ui.pose = look

\* C25: after an import of a structure with metadata, every later export,
\* also after place and remove, carries the metadata, version and size of
\* the imported structure: a successful import stores them, no other
\* operation changes them, and an export returns them.
C25_MetadataRoundTrip ==
  [][ /\ (op' = "import" /\ ret'.ok) =>
           worldData' = [version |-> args'.data.version,
                         size |-> args'.data.size,
                         metadata |-> args'.data.metadata]
      /\ ~(op' = "import" /\ ret'.ok) => worldData' = worldData
      /\ op' = "export" =>
           /\ ret'.data[1].metadata = worldData.metadata
           /\ ret'.data[1].version = worldData.version
           /\ ret'.data[1].size = worldData.size ]_vars

\* an export after an import with metadata and a later place
C25_Witness ==
  /\ op = "export" /\ version >= 2
  /\ ret.data[1].metadata = <<"meta">>
  /\ ret.data[1].size = Size(4, 4, 4)
  /\ Len(ret.data[1].blocks) = 3

\* C21: right after the loss of pointer lock is handled, the velocity is
\* (0,0,0) and the six thrust flags are false, whatever they were.
C21_LockLossResets ==
  [][ (isPointerLocked /\ ~isPointerLocked') =>
        (velocity' = <<0, 0, 0>> /\ moveState' = NoMove) ]_vars

\* a lock lost while the camera was moving with a key held
C21_Witness ==
  /\ released = "moving" /\ ~isPointerLocked
  /\ velocity = <<0, 0, 0>> /\ moveState = NoMove

\* C22: pitchRef stays within [-pi/2 + 0.01, pi/2 - 0.01], and a pointer
\* movement changes yawRef or pitchRef only under pointer lock (as the
\* canvas tracks it in isPointerLockedRef).
C22_PitchClamped ==
  /\ [](look.pitch \in -PitchLimit..PitchLimit)
  /\ [][ (look' # look /\ cameraMode' = cameraMode) => isPointerLocked ]_vars

\* the look reached the upper limit after the camera was at the lower one
C22_Witness ==
  /\ isPointerLocked
  /\ look.pitch = PitchLimit /\ camera.pitch = -PitchLimit

\* C23: the horizontal direction animate adds to the velocity in one frame
\* has length at most 1 (2 percent are left for the rounding of sin and cos)
\* for every combination of the four horizontal thrust flags.
C23_DiagonalNormalized ==
  (cameraMode # "orbit" /\ isPointerLocked) =>
    LET h == HorizontalMove(moveState, look.yaw)
    IN  h.x * h.x + h.z * h.z <= 1000 * 1000 + 20000

\* C26: whenever pointer lock is not held, the six thrust flags are false.
C26_FlagsTiedToCapture == ~isPointerLocked => moveState = NoMove

\* C27: the camera mode handed to the canvas is always fps or orbit.
C27_TwoModes == cameraMode \in {"fps", "orbit"}

\* C24: once the sync effect has run for the latest revision, every entry of
\* the map with a catalog id has a mesh of that id in the scene, an entry
\* with an id the catalog lacks has no mesh in the scene, and every mesh in
\* the scene belongs to an occupied coordinate.
C24_RenderedFollowsStore ==
  /\ \A i \in 1..Len(blockMap) :
       IF blockMap[i].id \in BLOCK_BY_ID
       THEN \E m \in blockMeshes :
              m.inScene /\ m.key = blockMap[i].key /\ m.id = blockMap[i].id
       ELSE \A m \in blockMeshes : m.inScene => m.key # blockMap[i].key
  /\ \A m \in blockMeshes : m.inScene => m.key \in OccupiedKeys

CallsStore(u) ==
  /\ u.queried
  /\ \/ u.button = 0 /\ ~u.query.isNull
     \/ u.button = 2 /\ ~u.query.isNull /\ u.query.isBlock

\* C29: of the two listeners that receive one mousedown, the container's
\* (handleMouseDown) and the document's (handleFPSMouseDown), at most one
\* goes on to place or remove.
C29_OnePressOneCall ==
  [][ (dispatch # <<>> /\ dispatch' = <<>>) =>
        ~(CallsStore(ui) /\ CallsStore(ui')) ]_vars

\* C30: a step that changes the selected block id leaves the camera, the map,
\* the revision and the meshes (those in the scene, which are the rendered
\* and ray-tested ones) as they were.
C30_SelectionFrame ==
  [][ SelectedOf(hotbarSlots', selectedHotbarIndex') # selectedBlockId =>
        /\ camera' = camera
        /\ blockMeshes' = blockMeshes
        /\ blockMap' = blockMap /\ version' = version
        /\ worldData' = worldData ]_vars

====
